---- MODULE Spec2Model ----
(***************************************************************************)
(* Model of the Sourcegraph configuration migration scripts:               *)
(*   export-config.js  (src/export-config.js)                              *)
(*   import-config.js  (src/unnamed/part_001)                              *)
(*   README            (src/unnamed/part_000)                              *)
(* Three specifications share this module:                                 *)
(*   SpecQuery   one executeQuery call on one response                     *)
(*   SpecImport  one run of import-config.js                               *)
(*   SpecExport  one run of export-config.js                               *)
(***************************************************************************)
EXTENDS Naturals, Sequences, FiniteSets

VARIABLES
    pc,               \* position of the running script
    argc,             \* args.length
    exitCode,         \* process exit status; NoExit while running
    requests,         \* names of the requests written to the remote, in order
    qResp,            \* SpecQuery: the response handed to executeQuery
    qResult,          \* SpecQuery: how the promise settled
    fsState,          \* import: what exists under inputDir
    bundle,           \* import: records held by external-services.json
    target,           \* import: external services held by the remote
    initTarget,       \* import: the remote's services when the run started
    existingServices, \* import: local existingServices
    idx,              \* import: position of the for..of loop in services
    added,            \* import: local added
    skipped,          \* import: local skipped
    createdLog,       \* import: inputs of the mutations that resolved
    failedAt,         \* import: loop position whose mutation rejected, 0 if none
    listOutcome,      \* import: how the existing-services query ended
    summaryStatus,    \* import: summary.status of main's in-memory object
    importSummary,    \* import: status stored in import-summary.json, or NoFile
    remoteSite,       \* export: the site payload the remote answered with
    remoteNodes,      \* export: the externalServices payload the remote answered with
    siteConfigId,     \* export: main's siteConfigId
    siteConfigFile,   \* export: text of site-config.json, or NoText
    servicesFile,     \* export: text of external-services.json, or NoText
    exportSummary,    \* export: object stored in export-summary.json, or NoText
    failedStep        \* export: the step that threw, "none" if none

qvars == <<qResp, qResult>>
ivars == <<fsState, bundle, target, initTarget, existingServices, idx, added,
           skipped, createdLog, failedAt, listOutcome, summaryStatus,
           importSummary>>
evars == <<remoteSite, remoteNodes, siteConfigId, siteConfigFile, servicesFile,
           exportSummary, failedStep>>
vars == <<pc, argc, exitCode, requests, qvars, ivars, evars>>

(***************************************************************************)
(* Bounds of the model.                                                    *)
(***************************************************************************)
MaxErrors == 2     \* longest errors list of a response envelope
MaxBundle == 3     \* most records in external-services.json
MaxTarget == 2     \* most services on the target before the run
MaxFrags == 2      \* most fragments a configuration text is built from
MaxNodes == 2      \* most nodes of an exported externalServices payload

(***************************************************************************)
(* JavaScript values.                                                      *)
(***************************************************************************)
Undefined == [type |-> "undefined"]
NoExit == 99
RequiredArgs == 3
HttpErrorMin == 400

(***************************************************************************)
(* A response of the remote, as executeQuery sees it.                      *)
(*   completed  FALSE: the request emitted 'error' and no response ended   *)
(*   status     res.statusCode                                             *)
(*   body       what JSON.parse(responseData) does:                        *)
(*     parse "invalid"  JSON.parse throws                                  *)
(*     parse "null"     the body is the JSON text null                     *)
(*     parse "scalar"   a number, string, boolean or array: no errors and  *)
(*                      no data property                                   *)
(*     parse "object"   an object with                                     *)
(*        errors.kind "absent"   undefined, null or another falsy value    *)
(*                    "nolength" a truthy value without length (true, {})  *)
(*                    "string"   a non-empty string                        *)
(*                    "list"     an array; items are "null" (JSON null) or *)
(*                               the message of an error object            *)
(*        data   the data property                                         *)
(***************************************************************************)
ErrItems == {"null", "m1", "m2"}

SeqsUpTo(S, n) == UNION {[1..k -> S] : k \in 0..n}

ErrorsValues ==
    {[kind |-> k, items |-> <<>>] : k \in {"absent", "nolength", "string"}}
    \cup {[kind |-> "list", items |-> l] : l \in SeqsUpTo(ErrItems, MaxErrors)}

NoErrors == [kind |-> "absent", items |-> <<>>]

InvalidBody == [parse |-> "invalid", errors |-> NoErrors, data |-> Undefined]
NullBody == [parse |-> "null", errors |-> NoErrors, data |-> Undefined]
ScalarBody == [parse |-> "scalar", errors |-> NoErrors, data |-> Undefined]
ObjectBody(e, d) == [parse |-> "object", errors |-> e, data |-> d]

Response(s, b) == [completed |-> TRUE, status |-> s, body |-> b]
NoResponse == [completed |-> FALSE, status |-> 0, body |-> InvalidBody]

Settled(o, s, m, d) == [outcome |-> o, status |-> s, message |-> m, data |-> d]
Pending == Settled("pending", 0, "", Undefined)

(***************************************************************************)
(* res.on('end'): the classification of a completed response.              *)
(* A TypeError thrown inside the try block (reading .errors of null, or    *)
(* .message of a null first error) is caught by the same catch as a        *)
(* JSON.parse failure and rejects with 'Failed to parse response'.         *)
(***************************************************************************)
FirstErrorMessage(errors) ==
    IF errors.kind = "string" THEN "undefined" ELSE errors.items[1]

HasErrors(errors) ==
    \/ errors.kind = "string"
    \/ errors.kind = "list" /\ Len(errors.items) > 0

(* Mutant of onEnd: the body is parsed before the status code is looked at. *)
onEndParseFirst(resp) ==
    IF resp.body.parse \in {"invalid", "null"}
    THEN Settled("Failed to parse response", 0, "", Undefined)
    ELSE IF resp.status >= HttpErrorMin
    THEN Settled("HTTP Error", resp.status, "", resp.body)
    ELSE IF resp.body.parse = "scalar"
    THEN Settled("resolved", 0, "", Undefined)
    ELSE IF HasErrors(resp.body.errors)
    THEN IF resp.body.errors.kind = "list" /\ resp.body.errors.items[1] = "null"
         THEN Settled("Failed to parse response", 0, "", Undefined)
         ELSE Settled("GraphQL Error", 0,
                      FirstErrorMessage(resp.body.errors), Undefined)
    ELSE Settled("resolved", 0, "", resp.body.data)

onEnd(resp) ==
    IF resp.status >= HttpErrorMin
    THEN Settled("HTTP Error", resp.status, "", resp.body)
    ELSE IF resp.body.parse = "invalid"
    THEN Settled("Failed to parse response", 0, "", Undefined)
    ELSE IF resp.body.parse = "null"
    THEN Settled("Failed to parse response", 0, "", Undefined)
    ELSE IF resp.body.parse = "scalar"
    THEN Settled("resolved", 0, "", Undefined)
    ELSE IF HasErrors(resp.body.errors)
    THEN IF resp.body.errors.kind = "list" /\ resp.body.errors.items[1] = "null"
         THEN Settled("Failed to parse response", 0, "", Undefined)
         ELSE Settled("GraphQL Error", 0,
                      FirstErrorMessage(resp.body.errors), Undefined)
    ELSE Settled("resolved", 0, "", resp.body.data)

(* req.on('error') *)
onError(resp) == Settled("Request error", 0, "", Undefined)

executeQuery(resp) ==
    IF resp.completed THEN onEnd(resp) ELSE onError(resp)

Resolved(r) == r.outcome = "resolved"

(***************************************************************************)
(* Values the variables of a script hold while another script is modelled. *)
(***************************************************************************)
NoFile == "none"
NoText == <<"<absent>">>
NoData == [type |-> "none"]

QueryIdle ==
    /\ qResp = NoResponse
    /\ qResult = Pending

ImportIdle ==
    /\ fsState = [dir |-> FALSE, site |-> FALSE, services |-> "missing"]
    /\ bundle = <<>>
    /\ target = <<>>
    /\ initTarget = <<>>
    /\ existingServices = <<>>
    /\ idx = 0
    /\ added = 0
    /\ skipped = 0
    /\ createdLog = <<>>
    /\ failedAt = 0
    /\ listOutcome = "none"
    /\ summaryStatus = "none"
    /\ importSummary = NoFile

ExportIdle ==
    /\ remoteSite = NoData
    /\ remoteNodes = NoData
    /\ siteConfigId = NoData
    /\ siteConfigFile = NoText
    /\ servicesFile = NoText
    /\ exportSummary = NoText
    /\ failedStep = "none"

(***************************************************************************)
(* SpecQuery: one call of executeQuery.                                    *)
(***************************************************************************)
StatusCodes == {200, 302, 399, 400, 404, 500}
DataSamples == {Undefined, [type |-> "null"], [type |-> "value", v |-> 1]}

Bodies ==
    {InvalidBody, NullBody, ScalarBody}
    \cup {ObjectBody(e, d) : e \in ErrorsValues, d \in DataSamples}

Responses == {NoResponse} \cup {Response(s, b) : s \in StatusCodes, b \in Bodies}

InitQuery ==
    /\ pc = "request"
    /\ argc = RequiredArgs
    /\ exitCode = NoExit
    /\ requests = <<"query">>
    /\ qResp \in Responses
    /\ qResult = Pending
    /\ ImportIdle
    /\ ExportIdle

ResEnd ==
    /\ pc = "request"
    /\ qResp.completed
    /\ qResult' = onEnd(qResp)
    /\ pc' = "settled"
    /\ UNCHANGED <<argc, exitCode, requests, qResp, ivars, evars>>

ReqError ==
    /\ pc = "request"
    /\ ~qResp.completed
    /\ qResult' = onError(qResp)
    /\ pc' = "settled"
    /\ UNCHANGED <<argc, exitCode, requests, qResp, ivars, evars>>

NextQuery == ResEnd \/ ReqError

SpecQuery == InitQuery /\ [][NextQuery]_vars

(***************************************************************************)
(* How the remote can answer a request whose complete answer is `data`:    *)
(* with that data, with a well-formed envelope that lacks the data asked   *)
(* for, or with one of the failures executeQuery rejects.                  *)
(***************************************************************************)
ErrorList(l) == [kind |-> "list", items |-> l]

CompleteResponse(data) == Response(200, ObjectBody(NoErrors, data))

IncompleteResponses ==
    { Response(200, ObjectBody(NoErrors, Undefined)),
      Response(200, ObjectBody(ErrorList(<<>>), [type |-> "null"])),
      Response(200, ScalarBody) }

FailureResponses ==
    { Response(500, InvalidBody),
      Response(404, ObjectBody(NoErrors, Undefined)),
      Response(200, InvalidBody),
      Response(200, NullBody),
      Response(200, ObjectBody(ErrorList(<<"m1", "m2">>), Undefined)),
      NoResponse }

RemoteAnswers(data) ==
    {CompleteResponse(data)} \cup IncompleteResponses \cup FailureResponses

(* the same, when the complete answer is one of several payloads *)
RemoteAnswersOf(payloads) ==
    {CompleteResponse(data) : data \in payloads}
    \cup IncompleteResponses \cup FailureResponses

(***************************************************************************)
(* SpecImport: one run of import-config.js.                                *)
(***************************************************************************)
Names == {"github", "gitlab"}
Kinds == {"GITHUB", "GITLAB"}

(* the exported configuration of a service, and the one a service of the
   target had before the run *)
ExportedConfig(n, k) == [url |-> n, type |-> k]
OldConfig == [url |-> "old", type |-> "old"]

Records ==
    {[displayName |-> n, kind |-> k, config |-> ExportedConfig(n, k)] :
        n \in Names, k \in Kinds}
TargetServices == [displayName : Names, kind : Kinds, config : {OldConfig}]

FsStates ==
    {[dir |-> FALSE, site |-> FALSE, services |-> "missing"]}
    \cup [dir : {TRUE}, site : BOOLEAN, services : {"missing", "invalid", "valid"}]

InitImport ==
    /\ pc = "start"
    /\ argc \in {RequiredArgs - 1, RequiredArgs}
    /\ exitCode = NoExit
    /\ requests = <<>>
    /\ fsState \in FsStates
    /\ bundle \in (IF fsState.services = "valid"
                   THEN SeqsUpTo(Records, MaxBundle) ELSE {<<>>})
    /\ target \in SeqsUpTo(TargetServices, MaxTarget)
    /\ initTarget = target
    /\ existingServices = <<>>
    /\ idx = 0
    /\ added = 0
    /\ skipped = 0
    /\ createdLog = <<>>
    /\ failedAt = 0
    /\ listOutcome = "none"
    /\ summaryStatus = "none"
    /\ importSummary = NoFile
    /\ QueryIdle
    /\ ExportIdle

(* the catch block of main: console.error, process.exit(1) *)
ImportFailed ==
    /\ pc' = "Failed"
    /\ exitCode' = 1

(* lines 11-38: argument count, input directory and the two required files *)
PreconditionsMet ==
    /\ argc >= RequiredArgs
    /\ fsState.dir
    /\ fsState.site
    /\ fsState.services # "missing"

Preconditions ==
    /\ pc = "start"
    /\ IF PreconditionsMet
       THEN pc' = "main" /\ exitCode' = exitCode
       ELSE ImportFailed
    /\ UNCHANGED <<argc, requests, qvars, ivars, evars>>

(* Mutant of MainStart: the existing-services query is written to the remote
   before external-services.json is parsed. *)
MainStartQueryFirst ==
    /\ pc = "main"
    /\ summaryStatus' = "started"
    /\ requests' = Append(requests, "externalServices")
    /\ IF fsState.services = "invalid"
       THEN ImportFailed
       ELSE pc' = "awaitList" /\ exitCode' = exitCode
    /\ UNCHANGED <<argc, qvars, evars, fsState, bundle, target, initTarget,
                   existingServices, idx, added, skipped, createdLog, failedAt,
                   listOutcome, importSummary>>

(* main up to the first await: the summary object, then importExternalServices
   reads and parses external-services.json and writes the query to the remote *)
MainStart ==
    /\ pc = "main"
    /\ summaryStatus' = "started"
    /\ IF fsState.services = "invalid"
       THEN ImportFailed /\ requests' = requests
       ELSE /\ pc' = "awaitList"
            /\ requests' = Append(requests, "externalServices")
            /\ exitCode' = exitCode
    /\ UNCHANGED <<argc, qvars, evars, fsState, bundle, target, initTarget,
                   existingServices, idx, added, skipped, createdLog, failedAt,
                   listOutcome, importSummary>>

(* the nodes { id displayName kind } of the services the remote holds *)
ListedNodes(services) ==
    [i \in 1..Len(services) |->
        [displayName |-> services[i].displayName, kind |-> services[i].kind]]

ServicesData(services) == [type |-> "services", nodes |-> ListedNodes(services)]

(* data?.externalServices?.nodes || [] *)
NodesOrEmpty(data) == IF data.type = "services" THEN data.nodes ELSE <<>>

ListResponse ==
    /\ pc = "awaitList"
    /\ \E resp \in RemoteAnswers(ServicesData(target)) :
         LET r == executeQuery(resp) IN
         IF Resolved(r)
         THEN /\ existingServices' = NodesOrEmpty(r.data)
              /\ listOutcome' = IF r.data.type = "services" THEN "nodes" ELSE "nonodes"
              /\ idx' = 1
              /\ pc' = "loop"
              /\ exitCode' = exitCode
         ELSE /\ ImportFailed
              /\ listOutcome' = r.outcome
              /\ UNCHANGED <<existingServices, idx>>
    /\ added' = 0
    /\ skipped' = 0
    /\ UNCHANGED <<argc, requests, qvars, evars, fsState, bundle, target,
                   initTarget, createdLog, failedAt, summaryStatus, importSummary>>

(* existingServices.find(s => s.displayName === service.displayName &&
                              s.kind === service.kind) *)
existingService(list, service) ==
    \E i \in 1..Len(list) :
        list[i].displayName = service.displayName /\ list[i].kind = service.kind

SkipExisting ==
    /\ pc = "loop"
    /\ idx <= Len(bundle)
    /\ existingService(existingServices, bundle[idx])
    /\ skipped' = skipped + 1
    /\ idx' = idx + 1
    /\ UNCHANGED <<pc, argc, exitCode, requests, qvars, evars, fsState, bundle,
                   target, initTarget, existingServices, added, createdLog,
                   failedAt, listOutcome, summaryStatus, importSummary>>

SendMutation ==
    /\ pc = "loop"
    /\ idx <= Len(bundle)
    /\ ~existingService(existingServices, bundle[idx])
    /\ requests' = Append(requests, "addExternalService")
    /\ pc' = "awaitAdd"
    /\ UNCHANGED <<argc, exitCode, qvars, evars, ivars>>

(* Mutant of MutationInput: the record's config is not passed on. *)
MutationInputWithoutConfig(service) ==
    [displayName |-> service.displayName, kind |-> service.kind,
     config |-> OldConfig]

(* variables.input of the mutation *)
MutationInput(service) ==
    [displayName |-> service.displayName, kind |-> service.kind,
     config |-> service.config]

AddedData == [type |-> "added"]

(* Mutant of AddResponse: a rejected mutation is logged and the loop goes on
   with the next record. *)
AddResponseContinues ==
    /\ pc = "awaitAdd"
    /\ \E resp \in RemoteAnswers(AddedData) :
         LET r == executeQuery(resp) IN
         IF Resolved(r)
         THEN /\ target' = Append(target, bundle[idx])
              /\ createdLog' = Append(createdLog, bundle[idx])
              /\ added' = added + 1
              /\ failedAt' = failedAt
         ELSE /\ failedAt' = idx
              /\ UNCHANGED <<target, createdLog, added>>
    /\ idx' = idx + 1
    /\ pc' = "loop"
    /\ UNCHANGED <<argc, exitCode, requests, qvars, evars, fsState, bundle,
                   initTarget, existingServices, skipped, listOutcome,
                   summaryStatus, importSummary>>

(* The remote applies a mutation it answers without error; a request whose
   response never arrives may or may not have been applied. *)
AddResponse ==
    /\ pc = "awaitAdd"
    /\ \E resp \in RemoteAnswers(AddedData) :
         LET r == executeQuery(resp) IN
         IF Resolved(r)
         THEN /\ target' = Append(target, MutationInput(bundle[idx]))
              /\ createdLog' = Append(createdLog, MutationInput(bundle[idx]))
              /\ added' = added + 1
              /\ idx' = idx + 1
              /\ pc' = "loop"
              /\ UNCHANGED <<exitCode, failedAt>>
         ELSE /\ ImportFailed
              /\ failedAt' = idx
              /\ target' \in (IF resp.completed THEN {target}
                              ELSE {target, Append(target, MutationInput(bundle[idx]))})
              /\ UNCHANGED <<createdLog, added, idx>>
    /\ UNCHANGED <<argc, requests, qvars, evars, fsState, bundle, initTarget,
                   existingServices, skipped, listOutcome, summaryStatus,
                   importSummary>>

(* Mutant of FinishImport: the summary is stored before its status is updated. *)
FinishImportStaleStatus ==
    /\ pc = "loop"
    /\ idx > Len(bundle)
    /\ importSummary' = summaryStatus
    /\ summaryStatus' = "completed"
    /\ pc' = "Completed"
    /\ exitCode' = 0
    /\ UNCHANGED <<argc, requests, qvars, evars, fsState, bundle, target,
                   initTarget, existingServices, idx, added, skipped,
                   createdLog, failedAt, listOutcome>>

(* the loop is over: importExternalServices returns, main stores the summary *)
FinishImport ==
    /\ pc = "loop"
    /\ idx > Len(bundle)
    /\ summaryStatus' = "completed"
    /\ importSummary' = summaryStatus'
    /\ pc' = "Completed"
    /\ exitCode' = 0
    /\ UNCHANGED <<argc, requests, qvars, evars, fsState, bundle, target,
                   initTarget, existingServices, idx, added, skipped,
                   createdLog, failedAt, listOutcome>>

NextImport ==
    \/ Preconditions
    \/ MainStart
    \/ ListResponse
    \/ SkipExisting
    \/ SendMutation
    \/ AddResponse
    \/ FinishImport

SpecImport == InitImport /\ [][NextImport]_vars

(***************************************************************************)
(* Claims about the import run (checked under SpecImport).                 *)
(***************************************************************************)
MutationsSent == Len(SelectSeq(requests, LAMBDA q : q = "addExternalService"))

IsPrefix(a, b) == Len(a) <= Len(b) /\ SubSeq(b, 1, Len(a)) = a

UniquePairs(services) ==
    \A i, j \in 1..Len(services) :
        (services[i].displayName = services[j].displayName
         /\ services[i].kind = services[j].kind) => i = j

TargetContainsBundle ==
    \A i \in 1..Len(bundle) : existingService(initTarget, bundle[i])

(* C1: when the target already holds a service with the (displayName, kind)
   of every bundle record, the run sends no addExternalService mutation and
   a run that completes ends with skipped equal to the bundle size. *)
C1_Idempotence ==
    TargetContainsBundle =>
        /\ MutationsSent = 0
        /\ pc = "Completed" => skipped = Len(bundle)

(* Supporting lemma for C1: the same statement for the runs whose
   existing-services query resolved with the node list. *)
C1_IdempotenceWhenListed ==
    (TargetContainsBundle /\ listOutcome = "nodes") =>
        /\ MutationsSent = 0
        /\ pc = "Completed" => (skipped = Len(bundle) /\ added = 0)

(* C2: whenever a mutation is in flight for a record, the target holds no
   service with that record's (displayName, kind), services created earlier
   in the same run included; and a target with unique pairs keeps unique
   pairs.  Stated for the runs whose existing-services query resolved with
   the node list. *)
C2_NeverCreatesDuplicate ==
    listOutcome = "nodes" =>
        /\ pc = "awaitAdd" => ~existingService(target, bundle[idx])
        /\ UniquePairs(initTarget) => UniquePairs(target)

(* C3: once a mutation has failed, the run is Failed with exit status 1, the
   services created by the earlier mutations of the run are still on the
   target behind the services it held before, the failed mutation is the
   last request of the run, and the loop never moved past the failed record. *)
C3_AbortWithoutRollback ==
    failedAt # 0 =>
        /\ pc = "Failed"
        /\ exitCode = 1
        /\ IsPrefix(initTarget \o createdLog, target)
        /\ Len(createdLog) = added
        /\ MutationsSent = Len(createdLog) + 1
        /\ requests[Len(requests)] = "addExternalService"
        /\ idx = failedAt
        /\ added + skipped = failedAt - 1

C3_Witness ==
    /\ failedAt = 2
    /\ Len(bundle) = 3
    /\ Len(createdLog) = 1
    /\ initTarget # <<>>
    /\ target = initTarget \o createdLog
    /\ pc = "Failed"

BadLocalInput ==
    \/ argc < RequiredArgs
    \/ ~fsState.dir
    \/ ~fsState.site
    \/ fsState.services \in {"missing", "invalid"}

(* C4: with too few arguments, a missing input directory, a missing
   site-config.json or external-services.json, or an external-services.json
   that is not valid JSON, no request is ever written to the remote, the run
   never completes, it can always take its next step until it has failed, and
   it fails with exit status 1. *)
C4_NoRequestOnBadInput ==
    BadLocalInput =>
        /\ requests = <<>>
        /\ pc \in {"start", "main", "Failed"}
        /\ pc = "Failed" => exitCode = 1
        /\ pc # "Failed" => ENABLED (Preconditions \/ MainStart)

C4_Witness ==
    /\ pc = "Failed"
    /\ exitCode = 1
    /\ PreconditionsMet
    /\ fsState.services = "invalid"
    /\ summaryStatus = "started"

(* C5: import-summary.json is stored only by a run in which every step
   succeeded, and then holds status "completed"; a failed run stores no
   summary; "started" and "failed" are never stored. *)
C5_SummaryOnlyOnSuccess ==
    /\ importSummary \in {NoFile, "completed"}
    /\ importSummary # NoFile =>
          /\ pc = "Completed"
          /\ exitCode = 0
          /\ failedAt = 0
          /\ listOutcome \in {"nodes", "nonodes"}
          /\ added + skipped = Len(bundle)
          /\ MutationsSent = added
    /\ pc = "Failed" => importSummary = NoFile
    /\ pc = "Completed" => importSummary = "completed"

C5_Witness ==
    /\ importSummary = "completed"
    /\ added = 1
    /\ skipped = 1

(* C9: a run against a target without external services that completes ends
   with added equal to the bundle size and skipped zero, and the target then
   holds exactly one service per bundle record, in file order, with that
   record's displayName, kind and config. *)
C9_EmptyTarget ==
    (initTarget = <<>> /\ pc = "Completed") =>
        /\ added = Len(bundle)
        /\ skipped = 0
        /\ Len(target) = Len(bundle)
        /\ \A i \in 1..Len(bundle) :
              /\ target[i].displayName = bundle[i].displayName
              /\ target[i].kind = bundle[i].kind
              /\ target[i].config = bundle[i].config

C9_Witness ==
    /\ initTarget = <<>>
    /\ pc = "Completed"
    /\ Len(bundle) = 3
    /\ bundle[1] = bundle[3]
    /\ bundle[1].config # bundle[2].config
    /\ added = 3

(***************************************************************************)
(* JSON text.  A text is a sequence whose elements are single characters;  *)
(* the names of the queried fields (site, configuration, id, ...) are      *)
(* written as one element each, which no character of a value equals.      *)
(* A JavaScript value is a record tagged by type:                          *)
(*   string (chars), number (tok), null, undefined,                        *)
(*   object (fields: a sequence of [key, val]), array (items).             *)
(***************************************************************************)
Q == "\""
BS == "\\"
NL == "\n"

Str(chars) == [type |-> "string", chars |-> chars]
Num(tok) == [type |-> "number", tok |-> tok]
Null == [type |-> "null"]
Obj(fields) == [type |-> "object", fields |-> fields]
Arr(items) == [type |-> "array", items |-> items]
Member(k, v) == [key |-> <<k>>, val |-> v]

(* v?.k and v.k of a value that is not null or undefined: a string, a number
   or an object without the member yields undefined *)
Get(v, k) ==
    IF v.type = "object" /\ \E i \in 1..Len(v.fields) : v.fields[i].key = <<k>>
    THEN v.fields[CHOOSE i \in 1..Len(v.fields) : v.fields[i].key = <<k>>].val
    ELSE Undefined

Truthy(v) == v.type \notin {"undefined", "null"}

(* the characters JSON.stringify writes for a string: a backslash is put
   before every quotation mark and backslash.  Every character gets a slot
   before it that holds the backslash or stays empty. *)
NoChar == "<skip>"

Escape(chars) ==
    SelectSeq([j \in 1..(2 * Len(chars)) |->
                  IF j % 2 = 0 THEN chars[j \div 2]
                  ELSE IF chars[(j + 1) \div 2] \in {Q, BS} THEN BS
                  ELSE NoChar],
              LAMBDA c : c # NoChar)

Quote(chars) == <<Q>> \o Escape(chars) \o <<Q>>

Spaces(n) == [i \in 1..n |-> " "]

(* JSON.stringify drops the members of an object whose value is undefined *)
Defined(fields) == SelectSeq(fields, LAMBDA m : m.val.type # "undefined")

(* JSON.stringify(value) and JSON.stringify(value, null, 2): gap is 0 or 2 *)
RECURSIVE Stringify(_, _, _), StringifyMembers(_, _, _), StringifyItems(_, _, _)
Stringify(v, gap, indent) ==
    CASE v.type = "string" -> Quote(v.chars)
      [] v.type = "number" -> <<v.tok>>
      [] v.type = "object" ->
            IF Defined(v.fields) = <<>> THEN <<"{", "}">>
            ELSE <<"{">> \o StringifyMembers(Defined(v.fields), gap, indent + gap)
                 \o (IF gap > 0 THEN <<NL>> \o Spaces(indent) ELSE <<>>) \o <<"}">>
      [] v.type = "array" ->
            IF v.items = <<>> THEN <<"[", "]">>
            ELSE <<"[">> \o StringifyItems(v.items, gap, indent + gap)
                 \o (IF gap > 0 THEN <<NL>> \o Spaces(indent) ELSE <<>>) \o <<"]">>
      [] OTHER -> <<"null">>

StringifyMembers(fields, gap, indent) ==
    IF fields = <<>> THEN <<>>
    ELSE (IF gap > 0 THEN <<NL>> \o Spaces(indent) ELSE <<>>)
         \o Quote(Head(fields).key) \o <<":">>
         \o (IF gap > 0 THEN <<" ">> ELSE <<>>)
         \o Stringify(Head(fields).val, gap, indent)
         \o (IF Len(fields) > 1 THEN <<",">> ELSE <<>>)
         \o StringifyMembers(Tail(fields), gap, indent)

StringifyItems(items, gap, indent) ==
    IF items = <<>> THEN <<>>
    ELSE (IF gap > 0 THEN <<NL>> \o Spaces(indent) ELSE <<>>)
         \o Stringify(Head(items), gap, indent)
         \o (IF Len(items) > 1 THEN <<",">> ELSE <<>>)
         \o StringifyItems(Tail(items), gap, indent)

JSONStringify(v) == Stringify(v, 0, 0)
JSONStringifyPretty(v) == Stringify(v, 2, 0)

(* JSON.parse; each operator returns the value read and the position behind it *)
White == {NL, " "}

(* the number of backslashes that stand directly before position k, counted
   back no further than position lo *)
BackslashRun(t, lo, k) ==
    CHOOSE r \in 0..(k - lo) :
        /\ \A m \in (k - r)..(k - 1) : t[m] = BS
        /\ r = k - lo \/ t[k - (r + 1)] # BS

(* position k holds a character taken literally: it follows a backslash that
   is not itself taken literally *)
Escaped(t, lo, k) == BackslashRun(t, lo, k) % 2 = 1

(* the string whose first character stands at position i: it ends before the
   first quotation mark not taken literally; the escaping backslashes are
   dropped *)
ReadChars(t, i) ==
    LET quotes == {j \in i..Len(t) : t[j] = Q /\ ~Escaped(t, i, j)}
        close == CHOOSE j \in quotes : \A m \in quotes : j <= m
    IN [chars |-> SelectSeq([k \in 1..(close - i) |->
                                IF t[i + k - 1] = BS /\ ~Escaped(t, i, i + k - 1)
                                THEN NoChar ELSE t[i + k - 1]],
                            LAMBDA c : c # NoChar),
        next |-> close + 1]

RECURSIVE ParseValue(_, _), ParseMembers(_, _), ParseItems(_, _)
ParseValue(t, i) ==
    IF t[i] \in White THEN ParseValue(t, i + 1)
    ELSE IF t[i] = Q
    THEN LET r == ReadChars(t, i + 1) IN [val |-> Str(r.chars), next |-> r.next]
    ELSE IF t[i] = "{"
    THEN LET r == ParseMembers(t, i + 1) IN [val |-> Obj(r.list), next |-> r.next]
    ELSE IF t[i] = "["
    THEN LET r == ParseItems(t, i + 1) IN [val |-> Arr(r.list), next |-> r.next]
    ELSE IF t[i] = "null"
    THEN [val |-> Null, next |-> i + 1]
    ELSE [val |-> Num(t[i]), next |-> i + 1]

ParseMembers(t, i) ==
    IF t[i] = "}" THEN [list |-> <<>>, next |-> i + 1]
    ELSE IF t[i] \in White \cup {","} THEN ParseMembers(t, i + 1)
    ELSE LET k == ReadChars(t, i + 1)
             v == ParseValue(t, k.next + 1)
             r == ParseMembers(t, v.next)
         IN [list |-> <<[key |-> k.chars, val |-> v.val]>> \o r.list,
             next |-> r.next]

ParseItems(t, i) ==
    IF t[i] = "]" THEN [list |-> <<>>, next |-> i + 1]
    ELSE IF t[i] \in White \cup {","} THEN ParseItems(t, i + 1)
    ELSE LET v == ParseValue(t, i)
             r == ParseItems(t, v.next)
         IN [list |-> <<v.val>> \o r.list, next |-> r.next]

JSONParse(t) == ParseValue(t, 1).val

(***************************************************************************)
(* The sentinel rewrite.                                                   *)
(***************************************************************************)
REDACTED == <<"R", "E", "D", "A", "C", "T", "E", "D">>
NEEDS_UPDATING ==
    <<"N", "E", "E", "D", "S", "_", "U", "P", "D", "A", "T", "I", "N", "G">>

(* String.prototype.indexOf from a position; 0 when there is no occurrence *)
IndexOf(t, pat, from) ==
    LET found == {i \in from..(Len(t) + 1 - Len(pat)) :
                      SubSeq(t, i, i + Len(pat) - 1) = pat}
    IN IF found = {} THEN 0
       ELSE CHOOSE i \in found : \A j \in found : i <= j

(* Mutant of replaceAll: String.prototype.replace with a string pattern, which
   replaces the first occurrence only. *)
replaceFirst(t, pat, rep) ==
    LET p == IndexOf(t, pat, 1)
    IN IF p = 0 THEN t
       ELSE SubSeq(t, 1, p - 1) \o rep \o SubSeq(t, p + Len(pat), Len(t))

(* String.prototype.replaceAll with a string pattern: every occurrence, found
   from left to right, each search starting behind the match before it *)
RECURSIVE replaceAll(_, _, _)
replaceAll(t, pat, rep) ==
    LET p == IndexOf(t, pat, 1)
    IN IF p = 0 THEN t
       ELSE SubSeq(t, 1, p - 1) \o rep
            \o replaceAll(SubSeq(t, p + Len(pat), Len(t)), pat, rep)

(* JSON.parse(JSON.stringify(data).replaceAll("REDACTED", "NEEDS_UPDATING")) *)
sanitizedData(data) ==
    JSONParse(replaceAll(JSONStringify(data), REDACTED, NEEDS_UPDATING))

(***************************************************************************)
(* SpecExport: one run of export-config.js.                                *)
(***************************************************************************)
Frags == {REDACTED, NEEDS_UPDATING, <<"R", "E">>, <<Q>>, <<BS>>}

RECURSIVE Texts(_)
Texts(n) ==
    IF n = 0 THEN {<<>>}
    ELSE Texts(n - 1) \cup {f \o t : f \in Frags, t \in Texts(n - 1)}

ConfigIds == {"7", "8"}

(* data of the answer to  query { site { configuration { id effectiveContents } } } *)
SiteData(configuration) ==
    Obj(<<Member("site", Obj(<<Member("configuration", configuration)>>))>>)

Configuration(id, contents) ==
    Obj(<<Member("id", Num(id)), Member("effectiveContents", Str(contents))>>)

SitePayloads ==
    {SiteData(Configuration("7", c)) : c \in Texts(MaxFrags)}
    \cup {SiteData(Configuration(id, REDACTED)) : id \in ConfigIds}
    \cup {SiteData(Null)}
    \cup {SiteData(Obj(<<Member("id", Num(id))>>)) : id \in ConfigIds}

(* data of the answer to
   query { externalServices { nodes { id kind displayName config } } } *)
Node(id, kind, displayName, config) ==
    Obj(<<Member("id", Str(id)), Member("kind", Str(kind)),
          Member("displayName", Str(displayName)), Member("config", Str(config))>>)

NodeSet ==
    {Node(<<"1">>, <<"G">>, <<"n">>, c) :
        c \in {REDACTED, NEEDS_UPDATING}}
    \cup {Node(<<"2">>, <<"G">>, REDACTED, <<"x">>)}

NodesData(nodes) ==
    Obj(<<Member("externalServices", Obj(<<Member("nodes", nodes)>>))>>)

NodesPayloads ==
    {NodesData(Arr(items)) : items \in SeqsUpTo(NodeSet, MaxNodes)}
    \cup {NodesData(Null)}

InitExport ==
    /\ pc = "start"
    /\ argc \in {RequiredArgs - 1, RequiredArgs}
    /\ exitCode = NoExit
    /\ requests = <<>>
    /\ ExportIdle
    /\ ImportIdle
    /\ QueryIdle

(* the catch block of main: console.error, process.exit(1) *)
ExportFailed(step) ==
    /\ pc' = "Failed"
    /\ exitCode' = 1
    /\ failedStep' = step

(* lines 11-29 and main up to the first await: exportSiteConfig writes its
   query to the remote *)
StartExport ==
    /\ pc = "start"
    /\ IF argc < RequiredArgs
       THEN ExportFailed("arguments") /\ requests' = requests
       ELSE /\ pc' = "awaitSite"
            /\ requests' = Append(requests, "siteConfiguration")
            /\ UNCHANGED <<exitCode, failedStep>>
    /\ UNCHANGED <<argc, qvars, ivars, remoteSite, remoteNodes, siteConfigId,
                   siteConfigFile, servicesFile, exportSummary>>

(* fs.writeFileSync(path, data) throws unless data is a string *)
Writable(v) == v.type = "string"

(* Mutant of SiteResponse: a failure of the site step is reported and the run
   goes on to the external services. *)
SiteResponseGoesOn ==
    /\ pc = "awaitSite"
    /\ \E resp \in RemoteAnswersOf(SitePayloads) :
         LET r == executeQuery(resp)
             data == r.data
             config == Get(Get(Get(sanitizedData(data), "site"),
                               "configuration"), "effectiveContents")
         IN /\ remoteSite' = IF Resolved(r) THEN data ELSE NoData
            /\ IF /\ Resolved(r)
                  /\ Truthy(Get(Get(data, "site"), "configuration"))
                  /\ Writable(config)
               THEN /\ siteConfigFile' = config.chars
                    /\ siteConfigId' = Get(config, "id")
                    /\ failedStep' = failedStep
               ELSE /\ failedStep' = "site"
                    /\ UNCHANGED <<siteConfigFile, siteConfigId>>
    /\ requests' = Append(requests, "externalServices")
    /\ pc' = "awaitServices"
    /\ UNCHANGED <<argc, exitCode, qvars, ivars, remoteNodes, servicesFile,
                   exportSummary>>

(* the rest of exportSiteConfig, then main goes on to exportExternalServices,
   which writes its query to the remote *)
SiteResponse ==
    /\ pc = "awaitSite"
    /\ \E resp \in RemoteAnswersOf(SitePayloads) :
         LET r == executeQuery(resp)
             data == r.data
             config == Get(Get(Get(sanitizedData(data), "site"),
                               "configuration"), "effectiveContents")
         IN /\ remoteSite' = IF Resolved(r) THEN data ELSE NoData
            /\ IF /\ Resolved(r)
                  /\ Truthy(Get(Get(data, "site"), "configuration"))
                  /\ Writable(config)
               THEN /\ siteConfigFile' = config.chars
                    /\ siteConfigId' = Get(config, "id")
                    /\ requests' = Append(requests, "externalServices")
                    /\ pc' = "awaitServices"
                    /\ UNCHANGED <<exitCode, failedStep>>
               ELSE /\ ExportFailed("site")
                    /\ UNCHANGED <<siteConfigFile, siteConfigId, requests>>
    /\ UNCHANGED <<argc, qvars, ivars, remoteNodes, servicesFile, exportSummary>>

Digits == <<"0", "1", "2", "3", "4", "5", "6", "7", "8", "9">>
NumberOf(n) == Num(Digits[n + 1])

(* main's summary object *)
Summary(id, services) ==
    Obj(<<Member("timestamp", Str(<<"t">>)),
          Member("sourcegraphUrl", Str(<<"u">>)),
          Member("siteConfigId", id),
          Member("externalServicesCount", NumberOf(Len(services.items)))>>)

(* the rest of exportExternalServices, then main stores the summary *)
ServicesResponse ==
    /\ pc = "awaitServices"
    /\ \E resp \in RemoteAnswersOf(NodesPayloads) :
         LET r == executeQuery(resp)
             data == r.data
             services == Get(Get(sanitizedData(data), "externalServices"), "nodes")
         IN /\ remoteNodes' = IF Resolved(r) THEN data ELSE NoData
            /\ IF /\ Resolved(r)
                  /\ Truthy(Get(Get(data, "externalServices"), "nodes"))
               THEN /\ servicesFile' = JSONStringifyPretty(services)
                    /\ exportSummary' =
                          JSONStringifyPretty(Summary(siteConfigId, services))
                    /\ pc' = "Completed"
                    /\ exitCode' = 0
                    /\ failedStep' = failedStep
               ELSE /\ ExportFailed("services")
                    /\ UNCHANGED <<servicesFile, exportSummary>>
    /\ UNCHANGED <<argc, requests, qvars, ivars, remoteSite, siteConfigId,
                   siteConfigFile>>

NextExport ==
    \/ StartExport
    \/ SiteResponse
    \/ ServicesResponse

SpecExport == InitExport /\ [][NextExport]_vars

(***************************************************************************)
(* Claims about the export run (checked under SpecExport).                 *)
(***************************************************************************)
Count(pat, t) ==
    Cardinality({i \in 1..(Len(t) + 1 - Len(pat)) :
                     SubSeq(t, i, i + Len(pat) - 1) = pat})

Issued(q) == \E i \in 1..Len(requests) : requests[i] = q

SiteOriginal == JSONStringify(remoteSite)
NodesOriginal == JSONStringify(remoteNodes)

(* C6 as stated: a stored file whose payload held REDACTED holds no REDACTED
   and exactly as many NEEDS_UPDATING as the payload held REDACTED. *)
C6_SentinelCountAsStated ==
    /\ (siteConfigFile # NoText /\ Count(REDACTED, SiteOriginal) > 0) =>
          /\ Count(REDACTED, siteConfigFile) = 0
          /\ Count(NEEDS_UPDATING, siteConfigFile) = Count(REDACTED, SiteOriginal)
    /\ (servicesFile # NoText /\ Count(REDACTED, NodesOriginal) > 0) =>
          /\ Count(REDACTED, servicesFile) = 0
          /\ Count(NEEDS_UPDATING, servicesFile) = Count(REDACTED, NodesOriginal)

(* C6 amended: a stored file whose payload held REDACTED holds no REDACTED
   and as many NEEDS_UPDATING as the payload held REDACTED and NEEDS_UPDATING
   together. *)
C6_SentinelRewrite ==
    /\ (siteConfigFile # NoText /\ Count(REDACTED, SiteOriginal) > 0) =>
          /\ Count(REDACTED, siteConfigFile) = 0
          /\ Count(NEEDS_UPDATING, siteConfigFile) =
                Count(REDACTED, SiteOriginal) + Count(NEEDS_UPDATING, SiteOriginal)
    /\ (servicesFile # NoText /\ Count(REDACTED, NodesOriginal) > 0) =>
          /\ Count(REDACTED, servicesFile) = 0
          /\ Count(NEEDS_UPDATING, servicesFile) =
                Count(REDACTED, NodesOriginal) + Count(NEEDS_UPDATING, NodesOriginal)

C6_Witness ==
    /\ pc = "Completed"
    /\ Count(REDACTED, SiteOriginal) = 2
    /\ Count(NEEDS_UPDATING, siteConfigFile) = 2
    /\ Count(REDACTED, NodesOriginal) = 2
    /\ Count(NEEDS_UPDATING, NodesOriginal) = 0
    /\ Count(NEEDS_UPDATING, servicesFile) = 2

(* C7: on a completed export the siteConfigId member of export-summary.json
   is the site.configuration.id the remote answered with. *)
C7_SummaryHoldsConfigId ==
    pc = "Completed" =>
        Get(JSONParse(exportSummary), "siteConfigId")
            = Get(Get(Get(remoteSite, "site"), "configuration"), "id")

SiteQueryFailed == pc \in {"awaitServices", "Completed", "Failed"}
                   /\ argc >= RequiredArgs /\ remoteSite = NoData

NoConfigurationObject ==
    /\ remoteSite # NoData
    /\ ~Truthy(Get(Get(remoteSite, "site"), "configuration"))

ServicesStepFailed == pc = "Failed" /\ Issued("externalServices")

(* C10: when the site-configuration query fails or answers without a
   configuration object, site-config.json is not stored, the external-services
   query is never written to the remote and neither external-services.json
   nor export-summary.json is stored; when the external-services step fails,
   export-summary.json is not stored; export-summary.json is stored only
   after both other files, in a run that sent the two queries in order. *)
C10_StepsInSequence ==
    /\ (SiteQueryFailed \/ NoConfigurationObject) =>
          /\ pc = "Failed"
          /\ exitCode = 1
          /\ siteConfigFile = NoText
          /\ ~Issued("externalServices")
          /\ servicesFile = NoText
          /\ exportSummary = NoText
    /\ ServicesStepFailed =>
          /\ exitCode = 1
          /\ servicesFile = NoText
          /\ exportSummary = NoText
    /\ Issued("externalServices") => siteConfigFile # NoText
    /\ exportSummary # NoText =>
          /\ siteConfigFile # NoText
          /\ servicesFile # NoText
          /\ requests = <<"siteConfiguration", "externalServices">>

C10_Witness ==
    /\ pc = "Failed"
    /\ remoteSite = SiteData(Null)
    /\ requests = <<"siteConfiguration">>

(***************************************************************************)
(* Claims about executeQuery (checked under SpecQuery).                    *)
(***************************************************************************)
Parses(body) == body.parse # "invalid"
NonEmptyErrorList(body) ==
    body.parse = "object" /\ body.errors.kind = "list" /\ body.errors.items # <<>>

(* C8 as stated: status >= 400 gives HTTP Error with status and body; else a
   body that does not parse gives the parse failure; else a non-empty errors
   list gives GraphQL Error with the first message; else every other body
   that parses resolves with its data member. *)
C8_ClassificationAsStated ==
    (pc = "settled" /\ qResp.completed) =>
        IF qResp.status >= HttpErrorMin
        THEN /\ qResult.outcome = "HTTP Error"
             /\ qResult.status = qResp.status
             /\ qResult.data = qResp.body
        ELSE IF ~Parses(qResp.body)
        THEN qResult.outcome = "Failed to parse response"
        ELSE IF NonEmptyErrorList(qResp.body)
        THEN /\ qResult.outcome = "GraphQL Error"
             /\ qResult.message = qResp.body.errors.items[1]
        ELSE /\ qResult.outcome = "resolved"
             /\ qResult.data = qResp.body.data

NullFirstError(body) == NonEmptyErrorList(body) /\ body.errors.items[1] = "null"

(* C8 amended: status >= 400 gives HTTP Error with status and body; else a
   body that does not parse, that parses to null, or whose non-empty errors
   list starts with null gives the parse failure; else an errors value of
   positive length gives GraphQL Error with the message of its first element;
   else the call resolves with the data member of the body.  The promise
   settles with exactly one of these four. *)
C8_Classification ==
    (pc = "settled" /\ qResp.completed) =>
        /\ qResult.outcome \in {"HTTP Error", "Failed to parse response",
                                "GraphQL Error", "resolved"}
        /\ IF qResp.status >= HttpErrorMin
           THEN /\ qResult.outcome = "HTTP Error"
                /\ qResult.status = qResp.status
                /\ qResult.data = qResp.body
           ELSE IF \/ ~Parses(qResp.body)
                   \/ qResp.body.parse = "null"
                   \/ NullFirstError(qResp.body)
           THEN qResult.outcome = "Failed to parse response"
           ELSE IF NonEmptyErrorList(qResp.body)
           THEN /\ qResult.outcome = "GraphQL Error"
                /\ qResult.message = qResp.body.errors.items[1]
           ELSE IF qResp.body.parse = "object" /\ qResp.body.errors.kind = "string"
           THEN /\ qResult.outcome = "GraphQL Error"
                /\ qResult.message = "undefined"
           ELSE /\ qResult.outcome = "resolved"
                /\ qResult.data = (IF qResp.body.parse = "object"
                                   THEN qResp.body.data ELSE Undefined)

C8_Witness ==
    /\ pc = "settled"
    /\ qResp.status = 200
    /\ qResp.body.parse = "object"
    /\ qResp.body.errors = ErrorList(<<"m2", "m1">>)
    /\ qResp.body.data = [type |-> "value", v |-> 1]
    /\ qResult.outcome = "GraphQL Error"
    /\ qResult.message = "m2"

====
